---- MODULE Spec2Model ----
(***************************************************************************)
(* Model of create-with-supplied.ts: the @Supplied(token) parameter        *)
(* decorator and createWithSupplied(module, targetClass, supplied).        *)
(*                                                                         *)
(* JavaScript runs one task at a time: `running` names the call whose      *)
(* synchronous code is executing (0 when the event loop is idle).  A call  *)
(* gives up the thread only at `await module.create(SuppliedFactory)`.     *)
(*                                                                         *)
(* JS arrays are sequences: element i (0-based) is position i+1.  An       *)
(* optional value (X | undefined) is <<>> for undefined and <<x>> for x.   *)
(* The target classes' constructors are caller code; the model takes       *)
(* `new targetClass(...args)` as an operation that records its arguments.  *)
(***************************************************************************)
EXTENDS Integers, Sequences, FiniteSets, TLC

\* Bounds of the exploration.
MaxCalls == 2
MaxAnnotations == 2

--------------------------------------------------------------------------
\* Values

\* The JS value `undefined` (also what a hole of an array reads as).
Undefined == "undefined"
\* The JS value `null`: defined, distinct from `undefined`.
Null == "null"
\* An optional value: undefined, or a present value.
None == << >>
Some(v) == << v >>

\* Metadata keys (create-with-supplied.ts:15, @nestjs/common/constants).
SUPPLIED_DEPS == "supplied-deps"
SELF_DECLARED_DEPS_METADATA == "self:paramtypes"
PARAMTYPES == "design:paramtypes"
MetaKeys == {SUPPLIED_DEPS, SELF_DECLARED_DEPS_METADATA, PARAMTYPES}

\* The injection token of supplied slots and its provider
\* (create-with-supplied.ts:20-24): SUPPLIED_DEP resolves to undefined.
SUPPLIED_DEP == "Symbol(supplied-dep)"
SuppliedDepProvider == [provide |-> SUPPLIED_DEP, useValue |-> Undefined]

\* The classes of the example: MySecretService(fooService: FooService,
\* secret: string), FooService() without constructor parameters, and a
\* subclass of MySecretService that declares no constructor of its own.
NoClass == "no class"
Classes == {"MySecretService", "Derived", "FooService"}
Parent(c) == IF c = "Derived" THEN "MySecretService" ELSE NoClass

\* The class `SuppliedFactory` that call k defines (lines 64-85): a new class
\* object at every call, without superclass.
SuppliedFactory(k) == "SuppliedFactory#" \o ToString(k)
Proxies == {SuppliedFactory(k) : k \in 1..MaxCalls}

\* design:paramtypes as the compiler emits it: only on a decorated class
\* that declares constructor parameters.
EmittedParamTypes(c) ==
    IF c = "MySecretService" THEN Some(<<"FooService", "String">>) ELSE None

\* The @Supplied decorators a class definition may carry: the token, the
\* class and the parameter index (index 2 lies beyond the arity of every
\* class here; "toString" is also a property of Object.prototype).
Decorations ==
    { <<"secret", "MySecretService", 1>>,
      <<"key", "MySecretService", 0>>,
      <<"key", "MySecretService", 1>>,
      <<"toString", "MySecretService", 1>>,
      <<"key", "MySecretService", 2>>,
      <<"key", "Derived", 0>>,
      <<"secret", "FooService", 0>> }
Tokens == {d[1] : d \in Decorations}

\* Properties every plain object inherits from Object.prototype, among Tokens.
ObjectPrototypeKeys == {"toString"}
InheritedValue(key) == "Object.prototype." \o key

\* The supplied maps callers pass: object literals as in
\* createWithSupplied(moduleRef, MySecretService, { secret: "hygge" }).
EmptyMap == [t \in {} |-> Undefined]
SuppliedMaps ==
    { EmptyMap,
      "secret" :> "hygge",
      ("secret" :> Undefined) @@ ("key" :> "k1"),
      ("secret" :> "other") @@ ("key" :> "k1"),
      ("secret" :> "other") @@ ("key" :> Null) @@ ("toString" :> "ts") }

--------------------------------------------------------------------------
\* JavaScript primitives used by the code

Max(a, b) == IF a >= b THEN a ELSE b

\* obj[key]: an own property, else one inherited from Object.prototype,
\* else undefined.
Get(obj, key) ==
    IF key \in DOMAIN obj THEN obj[key]
    ELSE IF key \in ObjectPrototypeKeys THEN InheritedValue(key)
    ELSE Undefined

\* arr[i] = v: writes element i, growing the array (holes read as undefined)
\* when i is at or beyond its length.
ArraySet(arr, i, v) ==
    [j \in 1..Max(Len(arr), i + 1) |->
        IF j = i + 1 THEN v
        ELSE IF j <= Len(arr) THEN arr[j]
        ELSE Undefined]

\* Reflect.getMetadata(key, target): the target's own metadata, else its
\* prototype chain's, else undefined.
RECURSIVE GetMetadata(_, _, _)
GetMetadata(md, key, target) ==
    IF md[key][target] # None THEN md[key][target]
    ELSE IF Parent(target) = NoClass THEN None
    ELSE GetMetadata(md, key, Parent(target))

\* Reflect.defineMetadata(key, value, target): sets the target's own metadata.
DefineMetadata(md, key, value, target) ==
    [md EXCEPT ![key][target] = Some(value)]

\* Reflect.defineMetadata(key, value, target) for a value that may be
\* undefined: a later Reflect.getMetadata on a class without superclass
\* returns that value, undefined included.
DefineMetadataOptional(md, key, value, target) ==
    [md EXCEPT ![key][target] = value]

--------------------------------------------------------------------------
\* State

VARIABLES
    metadata,      \* Reflect's store: metadata[key][class], the class's own entry
                   \* (the classes of the program and the calls' proxies)
    arrays,        \* the descriptor arrays; arrays[id] is the array first
                   \* created for class id (several classes may reference it)
    providers,     \* the injection tokens registered in the container
    calls,         \* the createWithSupplied calls made so far, in order
    running,       \* the call whose synchronous code is executing, or 0
    ctorLog,       \* every invocation of a target class constructor
    annotations    \* how many @Supplied decorators have been applied

vars == <<metadata, arrays, providers, calls, running, ctorLog, annotations>>

NoError == [kind |-> "none", token |-> ""]
\* Error(`Required supplied dependency "${sup.token}" not provided.`)
MissingSuppliedDependency(token) ==
    [kind |-> "MissingSuppliedDependency", token |-> token]
\* The container's own error for a dependency it cannot resolve.
ContainerResolutionFailure(token) ==
    [kind |-> "ContainerResolutionFailure", token |-> token]
\* `for (const sup of undefined)`: TypeError, undefined is not iterable.
NotIterable == [kind |-> "TypeError", token |-> "suppliedDeps is not iterable"]

Pending == [status |-> "pending", error |-> NoError, args |-> << >>]
Rejected(e) == [status |-> "rejected", error |-> e, args |-> << >>]
\* The promise resolves to the instance new targetClass(...args) returned.
Resolved(args) == [status |-> "resolved", error |-> NoError, args |-> args]

\* A call that has been made and has run none of its code yet.
NewCall(targetClass, supplied) ==
    [ targetClass       |-> targetClass,
      supplied          |-> supplied,
      phase             |-> "Requested",
      suppliedDeps      |-> None,    \* the local `suppliedDeps`: an array reference
      created           |-> "nothing", \* the class handed to module.create
      promise           |-> "none",  \* state of the module.create promise
      containerError    |-> NoError,
      resolvedArgs      |-> << >>,   \* the arguments the container resolved
      constructorArgs   |-> << >>,   \* SuppliedFactory's constructorArgs
      boundDeps         |-> None,    \* history: the descriptors when the call resumed
      cursor            |-> 0,       \* position of the for-of loop
      result            |-> Pending ]

TypeOK ==
    /\ running \in 0..Len(calls)
    /\ Len(calls) <= MaxCalls
    /\ annotations \in 0..MaxAnnotations
    /\ providers \subseteq {"FooService", SUPPLIED_DEP}
    /\ \A k \in DOMAIN calls :
          calls[k].phase \in {"Requested", "ProxyResolving", "Binding",
                              "Constructing", "Completed", "Failed"}

Init ==
    /\ metadata = [key \in MetaKeys |-> [c \in Classes \cup Proxies |->
                      IF key = PARAMTYPES THEN EmittedParamTypes(c) ELSE None]]
    /\ arrays = [c \in Classes |-> << >>]
    /\ providers \in {{"FooService", SuppliedDepProvider.provide}, {"FooService"}}
    /\ calls = << >>
    /\ running = 0
    /\ ctorLog = << >>
    /\ annotations = 0

--------------------------------------------------------------------------
\* @Supplied(token) applied to parameter `index` of class `target`

\* Inject(SUPPLIED_DEP)(target, propertyKey, index): appends {index, param}
\* to a copy of the self-declared dependencies and defines it on the target.
Inject(md, param, target, index) ==
    LET found == GetMetadata(md, SELF_DECLARED_DEPS_METADATA, target)
        dependencies == IF found = None THEN << >> ELSE found[1]
    IN  DefineMetadata(md, SELF_DECLARED_DEPS_METADATA,
                       Append(dependencies, [index |-> index, param |-> param]),
                       target)

\* The array `Reflect.getMetadata(SUPPLIED_DEPS, target) || []` evaluates to:
\* the one found on the target or its prototype chain, else a new one.
DependenciesArray(md, target) ==
    LET found == GetMetadata(md, SUPPLIED_DEPS, target)
    IN  IF found = None THEN target ELSE found[1]

Supplied(token, target, index) ==
    /\ running = 0
    /\ annotations < MaxAnnotations
    /\ LET found == GetMetadata(metadata, SUPPLIED_DEPS, target)
           id == DependenciesArray(metadata, target)
           dependencies == IF found = None THEN << >> ELSE arrays[id]
       IN  /\ arrays' = [arrays EXCEPT ![id] =
                            Append(dependencies, [token |-> token, index |-> index])]
           /\ metadata' = Inject(DefineMetadata(metadata, SUPPLIED_DEPS, id, target),
                                 SUPPLIED_DEP, target, index)
    /\ annotations' = annotations + 1
    /\ UNCHANGED <<providers, calls, running, ctorLog>>

--------------------------------------------------------------------------
\* The container: module.create(type)

\* What the container injects for a registered token: the placeholder
\* provider's useValue for SUPPLIED_DEP, the service instance otherwise.
ProviderValue(token) ==
    IF token = SuppliedDepProvider.provide THEN SuppliedDepProvider.useValue
    ELSE token \o " instance"

\* The container's view of a constructor: design:paramtypes, with each
\* self-declared dependency {index, param} overriding its position.
RECURSIVE ReflectConstructorParams(_, _)
ReflectConstructorParams(paramtypes, selfParams) ==
    IF selfParams = << >> THEN paramtypes
    ELSE ReflectConstructorParams(
             ArraySet(paramtypes, Head(selfParams).index, Head(selfParams).param),
             Tail(selfParams))

\* The injection tokens the container resolves for the class it is given:
\* it reads the class's design:paramtypes and self-declared dependencies,
\* each `|| []`.
FactoryParams(md, type) ==
    LET paramtypes == GetMetadata(md, PARAMTYPES, type)
        selfParams == GetMetadata(md, SELF_DECLARED_DEPS_METADATA, type)
    IN  ReflectConstructorParams(
            IF paramtypes = None THEN << >> ELSE paramtypes[1],
            IF selfParams = None THEN << >> ELSE selfParams[1])

Unresolvable(params) == {j \in DOMAIN params : params[j] \notin providers}
FirstUnresolvable(params) ==
    CHOOSE j \in Unresolvable(params) : \A i \in Unresolvable(params) : j <= i

--------------------------------------------------------------------------
\* createWithSupplied(module, targetClass, supplied)

\* The caller invokes createWithSupplied.
Request(targetClass, supplied) ==
    /\ running = 0
    /\ Len(calls) < MaxCalls
    /\ calls' = Append(calls, NewCall(targetClass, supplied))
    /\ running' = Len(calls) + 1
    /\ UNCHANGED <<metadata, arrays, providers, ctorLog, annotations>>

\* Faulty variant of ModuleCreateArgument: the target class itself is handed to
\* the container.
ModuleCreateArgument_Target(k) == calls[k].targetClass

\* The class a call hands to module.create: its own SuppliedFactory.
ModuleCreateArgument(k) == SuppliedFactory(k)

\* Faulty variant of Mirrored: the metadata is defined on the target class.
Mirrored_OntoTarget(k) == calls[k].targetClass

\* The class lines 88-89 define the copied metadata on: the call's own
\* SuppliedFactory.
Mirrored(k) == SuppliedFactory(k)

\* Lines 53-93: read the target's metadata, define SuppliedFactory, copy the
\* metadata onto it, call module.create(SuppliedFactory) and suspend.
Begin(k) ==
    /\ k \in DOMAIN calls
    /\ running = k
    /\ calls[k].phase = "Requested"
    /\ LET c == calls[k]
           suppliedDeps == GetMetadata(metadata, SUPPLIED_DEPS, c.targetClass)
           foundTypes == GetMetadata(metadata, PARAMTYPES, c.targetClass)
           targetParamTypes == IF foundTypes = None THEN << >> ELSE foundTypes[1]
           targetInjectDeps ==
               GetMetadata(metadata, SELF_DECLARED_DEPS_METADATA, c.targetClass)
       IN  /\ calls' = [calls EXCEPT ![k] =
              [c EXCEPT !.suppliedDeps = suppliedDeps,
                        !.created = ModuleCreateArgument(k),
                        !.promise = "pending",
                        !.phase = "ProxyResolving"]]
           /\ metadata' =
                 DefineMetadataOptional(
                     DefineMetadata(metadata, PARAMTYPES, targetParamTypes,
                                    Mirrored(k)),
                     SELF_DECLARED_DEPS_METADATA, targetInjectDeps, Mirrored(k))
    /\ running' = 0
    /\ UNCHANGED <<arrays, providers, ctorLog, annotations>>

\* A target class constructor runs with these arguments.
Invoke(k, by, args) ==
    Append(ctorLog, [call |-> k, class |-> calls[k].targetClass,
                     by |-> by, args |-> args])

\* The container settles the module.create promise: it rejects when a
\* dependency cannot be resolved, else it instantiates the class it was
\* given with the resolved arguments (SuppliedFactory's constructor keeps
\* them in constructorArgs).
ContainerSettle(k) ==
    /\ k \in DOMAIN calls
    /\ running = 0
    /\ calls[k].promise = "pending"
    /\ LET c == calls[k]
           params == FactoryParams(metadata, c.created)
           args == [j \in DOMAIN params |-> ProviderValue(params[j])]
       IN  IF Unresolvable(params) # {}
           THEN /\ calls' = [calls EXCEPT ![k] =
                      [c EXCEPT !.promise = "rejected",
                                !.containerError = ContainerResolutionFailure(
                                    params[FirstUnresolvable(params)])]]
                /\ UNCHANGED ctorLog
           ELSE /\ calls' = [calls EXCEPT ![k] =
                      [c EXCEPT !.promise = "resolved",
                                !.resolvedArgs = args,
                                !.constructorArgs = args]]
                /\ ctorLog' = IF c.created \in Proxies THEN ctorLog
                              ELSE Invoke(k, "container", args)
    /\ UNCHANGED <<metadata, arrays, providers, running, annotations>>

\* Faulty variant of Rethrown: the container's error is replaced by another one.
Rethrown_Wrapped(error) == [kind |-> "Error", token |-> error.kind]

\* What `await` rethrows when the module.create promise rejects.
Rethrown(error) == error

\* The content of the array `suppliedDeps` refers to, as it is now.
DescriptorsNow(c) ==
    IF c.suppliedDeps = None THEN None ELSE Some(arrays[c.suppliedDeps[1]])

\* Faulty variant of Settled: only a fulfilled promise wakes the call up (the
\* rejection is never delivered).
Settled_FulfilledOnly(c) == c.promise = "resolved"

\* The awaited module.create promise has settled: the call can continue.
Settled(c) == c.promise \in {"resolved", "rejected"}

\* The continuation after the await: a rejection leaves createWithSupplied,
\* else factory.getInstance() is entered.
Resume(k) ==
    /\ k \in DOMAIN calls
    /\ running = 0
    /\ calls[k].phase = "ProxyResolving"
    /\ Settled(calls[k])
    /\ LET c == calls[k]
       IN  IF c.promise = "rejected"
           THEN /\ calls' = [calls EXCEPT ![k] =
                      [c EXCEPT !.phase = "Failed",
                                !.boundDeps = DescriptorsNow(c),
                                !.result = Rejected(Rethrown(c.containerError))]]
                /\ running' = 0
           ELSE /\ calls' = [calls EXCEPT ![k] =
                      [c EXCEPT !.phase = "Binding",
                                !.cursor = 1,
                                !.boundDeps = DescriptorsNow(c)]]
                /\ running' = k
    /\ UNCHANGED <<metadata, arrays, providers, ctorLog, annotations>>

\* Faulty variant of SuppliedOf: the map is kept in one variable shared by all
\* calls, which holds the map of the latest call.
SuppliedOf_Shared(k) == calls[Len(calls)].supplied

\* The supplied map a call's getInstance reads: the one it was called with.
SuppliedOf(k) == calls[k].supplied

\* Faulty variant of BindOne: the argument array is rebuilt from the supplied value
\* alone instead of being written in place.
BindOne_FreshArray(args, sup, supplied) ==
    LET val == Get(supplied, sup.token)
    IN  IF val = Undefined
        THEN [thrown |-> MissingSuppliedDependency(sup.token), args |-> args]
        ELSE [thrown |-> NoError, args |-> ArraySet(<< >>, sup.index, val)]

\* Faulty variant of BindOne: the value goes to the first slot that still holds the
\* placeholder (matching by registration order, not by sup.index).
BindOne_ByOrder(args, sup, supplied) ==
    LET val == Get(supplied, sup.token)
        free == {j \in DOMAIN args : args[j] = Undefined}
        first == IF free = {} THEN Len(args)
                 ELSE (CHOOSE j \in free : \A i \in free : j <= i) - 1
    IN  IF val = Undefined
        THEN [thrown |-> MissingSuppliedDependency(sup.token), args |-> args]
        ELSE [thrown |-> NoError, args |-> ArraySet(args, first, val)]

\* Faulty variant of BindOne: the `val === undefined` test is dropped, the value
\* is assigned whatever it is.
BindOne_Unchecked(args, sup, supplied) ==
    [thrown |-> NoError, args |-> ArraySet(args, sup.index, Get(supplied, sup.token))]

\* Faulty variant of BindOne: a slot that already holds a value is not written
\* again (the first descriptor of an index wins).
BindOne_KeepFirst(args, sup, supplied) ==
    LET val == Get(supplied, sup.token)
        held == IF sup.index + 1 \in DOMAIN args THEN args[sup.index + 1]
                ELSE Undefined
    IN  IF val = Undefined
        THEN [thrown |-> MissingSuppliedDependency(sup.token), args |-> args]
        ELSE IF held # Undefined THEN [thrown |-> NoError, args |-> args]
        ELSE [thrown |-> NoError, args |-> ArraySet(args, sup.index, val)]

\* One round of the loop body (lines 77-81): the error thrown, or the
\* argument array after the assignment.
BindOne(args, sup, supplied) ==
    LET val == Get(supplied, sup.token)
    IN  IF val = Undefined
        THEN [thrown |-> MissingSuppliedDependency(sup.token), args |-> args]
        ELSE [thrown |-> NoError, args |-> ArraySet(args, sup.index, val)]

\* The whole loop of getInstance over a descriptor list (lines 76-82): the
\* error of the first round that throws, else the final argument array.
RECURSIVE GetInstanceArgs(_, _, _)
GetInstanceArgs(deps, args, supplied) ==
    IF deps = << >> THEN [thrown |-> NoError, args |-> args]
    ELSE LET round == BindOne(args, Head(deps), supplied)
         IN  IF round.thrown # NoError THEN round
             ELSE GetInstanceArgs(Tail(deps), round.args, supplied)

\* Faulty variant of BindStep: getInstance gives up the thread after every
\* round of its loop (as if the loop body awaited), and continues later.
BindStep_Awaiting(k) ==
    /\ k \in DOMAIN calls
    /\ running \in {0, k}
    /\ calls[k].phase = "Binding"
    /\ LET c == calls[k]
       IN  IF c.suppliedDeps = None
           THEN calls' = [calls EXCEPT ![k] =
                    [c EXCEPT !.phase = "Failed", !.result = Rejected(NotIterable)]]
           ELSE LET deps == arrays[c.suppliedDeps[1]]
                IN  IF c.cursor > Len(deps)
                    THEN calls' = [calls EXCEPT ![k] =
                             [c EXCEPT !.phase = "Constructing"]]
                    ELSE LET round == BindOne(c.constructorArgs, deps[c.cursor],
                                              SuppliedOf(k))
                         IN  IF round.thrown # NoError
                             THEN calls' = [calls EXCEPT ![k] =
                                      [c EXCEPT !.phase = "Failed",
                                                !.result = Rejected(round.thrown)]]
                             ELSE calls' = [calls EXCEPT ![k] =
                                      [c EXCEPT !.constructorArgs = round.args,
                                                !.cursor = c.cursor + 1]]
    /\ running' = 0
    /\ UNCHANGED <<metadata, arrays, providers, ctorLog, annotations>>

\* getInstance, one step of `for (const sup of suppliedDeps)`: the loop
\* cannot start on undefined, ends after the last descriptor, and otherwise
\* runs its body on the next descriptor.
BindStep(k) ==
    /\ k \in DOMAIN calls
    /\ running = k
    /\ calls[k].phase = "Binding"
    /\ LET c == calls[k]
       IN  IF c.suppliedDeps = None
           THEN /\ calls' = [calls EXCEPT ![k] =
                      [c EXCEPT !.phase = "Failed", !.result = Rejected(NotIterable)]]
                /\ running' = 0
           ELSE LET deps == arrays[c.suppliedDeps[1]]
                IN  IF c.cursor > Len(deps)
                    THEN /\ calls' = [calls EXCEPT ![k] =
                               [c EXCEPT !.phase = "Constructing"]]
                         /\ running' = k
                    ELSE LET round == BindOne(c.constructorArgs, deps[c.cursor],
                                              SuppliedOf(k))
                         IN  IF round.thrown # NoError
                             THEN /\ calls' = [calls EXCEPT ![k] =
                                        [c EXCEPT !.phase = "Failed",
                                                  !.result = Rejected(round.thrown)]]
                                  /\ running' = 0
                             ELSE /\ calls' = [calls EXCEPT ![k] =
                                        [c EXCEPT !.constructorArgs = round.args,
                                                  !.cursor = c.cursor + 1]]
                                  /\ running' = k
    /\ UNCHANGED <<metadata, arrays, providers, ctorLog, annotations>>

\* Line 83: return new targetClass(...this.constructorArgs).
Construct(k) ==
    /\ k \in DOMAIN calls
    /\ running = k
    /\ calls[k].phase = "Constructing"
    /\ ctorLog' = Invoke(k, "binder", calls[k].constructorArgs)
    /\ calls' = [calls EXCEPT ![k] =
          [calls[k] EXCEPT !.phase = "Completed",
                           !.result = Resolved(calls[k].constructorArgs)]]
    /\ running' = 0
    /\ UNCHANGED <<metadata, arrays, providers, annotations>>

--------------------------------------------------------------------------
Next ==
    \/ \E d \in Decorations : Supplied(d[1], d[2], d[3])
    \/ \E targetClass \in Classes, supplied \in SuppliedMaps :
          Request(targetClass, supplied)
    \/ \E k \in DOMAIN calls : Begin(k)
    \/ \E k \in DOMAIN calls : ContainerSettle(k)
    \/ \E k \in DOMAIN calls : Resume(k)
    \/ \E k \in DOMAIN calls : BindStep(k)
    \/ \E k \in DOMAIN calls : Construct(k)

Spec == Init /\ [][Next]_vars

\* The same program on fewer inputs, for the checks of behaviours: two
\* decorators of MySecretService, calls on MySecretService and FooService.
FairDecorations ==
    { <<"secret", "MySecretService", 1>>, <<"key", "MySecretService", 0>> }
FairClasses == {"MySecretService", "FooService"}
FairMaps ==
    { EmptyMap,
      "secret" :> "hygge",
      ("secret" :> "other") @@ ("key" :> "k1") }

FairNext ==
    \/ \E d \in FairDecorations : Supplied(d[1], d[2], d[3])
    \/ \E targetClass \in FairClasses, supplied \in FairMaps :
          Request(targetClass, supplied)
    \/ \E k \in DOMAIN calls : Begin(k)
    \/ \E k \in DOMAIN calls : ContainerSettle(k)
    \/ \E k \in DOMAIN calls : Resume(k)
    \/ \E k \in DOMAIN calls : BindStep(k)
    \/ \E k \in DOMAIN calls : Construct(k)

\* Scheduling: JavaScript runs synchronous code to its end (Begin, BindStep,
\* Construct of the running call), the event loop runs the continuation of
\* a settled promise (Resume), and the container is taken to settle every
\* module.create request (ContainerSettle).
Fairness ==
    \A k \in 1..MaxCalls :
        /\ WF_vars(Begin(k))
        /\ WF_vars(ContainerSettle(k))
        /\ WF_vars(Resume(k))
        /\ WF_vars(BindStep(k))
        /\ WF_vars(Construct(k))

FairSpec == Init /\ [][FairNext]_vars /\ Fairness

--------------------------------------------------------------------------
\* Vocabulary of the properties

Terminal(c) == c.phase \in {"Completed", "Failed"}

\* The descriptors of a call's target class when the call resumed (none
\* when the class has no descriptor list).
Descriptors(c) == IF c.boundDeps = None THEN << >> ELSE c.boundDeps[1]

DistinctIndices(deps) ==
    \A i, j \in DOMAIN deps : i # j => deps[i].index # deps[j].index

\* The supplied map holds a defined value for the token.
HoldsDefined(supplied, token) ==
    token \in DOMAIN supplied /\ supplied[token] # Undefined

\* Reading the token from the supplied map gives undefined: the token is
\* mapped to undefined, or it is absent and Object.prototype has no such
\* property.
ReadsUndefined(supplied, token) ==
    \/ token \in DOMAIN supplied /\ supplied[token] = Undefined
    \/ token \notin DOMAIN supplied /\ token \notin ObjectPrototypeKeys

\* The invocations of a target class constructor made for call k.
Invocations(k) == {i \in DOMAIN ctorLog : ctorLog[i].call = k}

--------------------------------------------------------------------------
\* C1 (Completeness): for every target class whose descriptors have pairwise
\* distinct indices and every supplied map holding a defined value for every
\* declared token, if the container resolves the proxy then the call
\* resolves and the target constructor receives supplied[token] at position
\* index, for every descriptor {token, index}.
C1_Completeness ==
    \A k \in DOMAIN calls :
        LET c == calls[k]
            deps == Descriptors(c)
        IN  ( /\ Terminal(c)
              /\ c.promise = "resolved"
              /\ DistinctIndices(deps)
              /\ \A i \in DOMAIN deps : HoldsDefined(c.supplied, deps[i].token) )
            => /\ c.result.status = "resolved"
               /\ \E i \in Invocations(k) : ctorLog[i].args = c.result.args
               /\ \A i \in DOMAIN deps :
                     /\ deps[i].index + 1 \in DOMAIN c.result.args
                     /\ c.result.args[deps[i].index + 1] = c.supplied[deps[i].token]

\* C1 holds of every class that has a descriptor list: it fails only on
\* the TypeError of a class without one (see C3).
C1_CompletenessOfAnnotatedClasses ==
    \A k \in DOMAIN calls :
        LET c == calls[k]
            deps == Descriptors(c)
        IN  ( /\ Terminal(c)
              /\ c.promise = "resolved"
              /\ c.boundDeps # None
              /\ DistinctIndices(deps)
              /\ \A i \in DOMAIN deps : HoldsDefined(c.supplied, deps[i].token) )
            => /\ c.result.status = "resolved"
               /\ \E i \in Invocations(k) : ctorLog[i].args = c.result.args
               /\ \A i \in DOMAIN deps :
                     /\ deps[i].index + 1 \in DOMAIN c.result.args
                     /\ c.result.args[deps[i].index + 1] = c.supplied[deps[i].token]

\* C3: for a target class without any descriptor, the call treats the
\* descriptor list as empty and, the proxy once resolved, completes with an
\* instance built from exactly the container-resolved arguments, whatever
\* the supplied map.
C3_NoDescriptorsIsPlainCreation ==
    \A k \in DOMAIN calls :
        LET c == calls[k]
        IN  (Terminal(c) /\ c.promise = "resolved" /\ c.boundDeps = None)
            => /\ c.phase = "Completed"
               /\ c.result = Resolved(c.resolvedArgs)

FirstMissing(supplied, deps) ==
    CHOOSE i \in DOMAIN deps :
        /\ ReadsUndefined(supplied, deps[i].token)
        /\ \A j \in 1..(i - 1) : ~ ReadsUndefined(supplied, deps[j].token)

--------------------------------------------------------------------------
\* The positions of an argument array that a descriptor names.
SuppliedPositions(deps) == {deps[i].index + 1 : i \in DOMAIN deps}

\* What position p of an array reads as (undefined beyond its length).
At(arr, p) == IF p \in DOMAIN arr THEN arr[p] ELSE Undefined

\* C4 (Non-supplied correctness): in a successful call every constructor
\* argument at a position without descriptor is exactly what the container
\* resolved for that position of the proxy; binding changes only the
\* positions that descriptors name.
C4_NonSuppliedArgumentsUntouched ==
    \A k \in DOMAIN calls :
        LET c == calls[k]
            deps == Descriptors(c)
        IN  c.phase = "Completed" =>
              /\ Len(c.result.args) >= Len(c.resolvedArgs)
              /\ \A p \in DOMAIN c.result.args :
                    p \notin SuppliedPositions(deps)
                    => c.result.args[p] = At(c.resolvedArgs, p)
              /\ \A i \in Invocations(k) : ctorLog[i].args = c.result.args

\* A completed call whose constructor got a container-resolved service
\* next to a supplied value.
C4_Witness ==
    \E k \in DOMAIN calls :
        LET c == calls[k]
        IN  /\ c.phase = "Completed"
            /\ Descriptors(c) = << [token |-> "secret", index |-> 1] >>
            /\ c.resolvedArgs = << "FooService instance", Undefined >>
            /\ c.result.args = << "FooService instance", "hygge" >>

\* The value the loop leaves at a supplied position: the token's value for
\* the last descriptor naming that position.
LastAt(deps, p) ==
    CHOOSE i \in DOMAIN deps :
        /\ deps[i].index + 1 = p
        /\ \A j \in DOMAIN deps : deps[j].index + 1 = p => j <= i

\* What getInstance returns or throws when run by itself on the call's own
\* descriptors, container-resolved arguments and supplied map.
AloneResult(c) ==
    IF c.boundDeps = None THEN Rejected(NotIterable)
    ELSE LET r == GetInstanceArgs(Descriptors(c), c.resolvedArgs, c.supplied)
         IN  IF r.thrown # NoError THEN Rejected(r.thrown) ELSE Resolved(r.args)

\* C5 (Isolation): whatever the interleaving of the calls, each call ends as
\* it would have ended alone: its instance holds at its supplied positions
\* only values read from its own supplied map, elsewhere its own container-
\* resolved arguments, and whether it succeeds or fails on a missing token
\* is decided by its own map alone.
C5_Isolation ==
    \A k \in DOMAIN calls :
        LET c == calls[k]
            deps == Descriptors(c)
            missing == {i \in DOMAIN deps : ReadsUndefined(c.supplied, deps[i].token)}
        IN  (Terminal(c) /\ c.promise = "resolved") =>
              /\ c.result = AloneResult(c)
              /\ c.boundDeps # None =>
                    /\ c.result.status = "resolved" <=> missing = {}
                    /\ c.result.status = "rejected" =>
                          /\ c.result.error.kind = "MissingSuppliedDependency"
                          /\ \E i \in missing : c.result.error.token = deps[i].token
              /\ c.result.status = "resolved" =>
                    /\ \A p \in SuppliedPositions(deps) :
                          c.result.args[p] = Get(c.supplied, deps[LastAt(deps, p)].token)
                    /\ \A p \in DOMAIN c.result.args :
                          p \notin SuppliedPositions(deps)
                          => c.result.args[p] = At(c.resolvedArgs, p)

\* The second call, for the same class and with another map, has completed
\* with its own value while the first call is still waiting for the
\* container; the first call's map would have given another value.
C5_Witness ==
    /\ Len(calls) = 2
    /\ calls[1].phase = "ProxyResolving"
    /\ calls[2].phase = "Completed"
    /\ calls[1].targetClass = calls[2].targetClass
    /\ \E i \in DOMAIN Descriptors(calls[2]) :
          LET d == Descriptors(calls[2])[i]
          IN  /\ HoldsDefined(calls[1].supplied, d.token)
              /\ HoldsDefined(calls[2].supplied, d.token)
              /\ calls[1].supplied[d.token] # calls[2].supplied[d.token]
              /\ calls[2].result.args[d.index + 1] = calls[2].supplied[d.token]

\* C6: if the container fails while resolving the proxy, the call rejects
\* with that same error, binds nothing and never invokes the target class
\* constructor.
C6_ContainerFailurePropagates ==
    \A k \in DOMAIN calls :
        LET c == calls[k]
        IN  c.promise = "rejected" =>
              /\ c.phase \in {"ProxyResolving", "Failed"}
              /\ c.phase = "Failed" => c.result = Rejected(c.containerError)
              /\ c.containerError.kind = "ContainerResolutionFailure"
              /\ c.cursor = 0
              /\ c.constructorArgs = << >>
              /\ Invocations(k) = {}

\* The placeholder provider was never registered, and a call on a class with
\* a supplied parameter has failed with the container's error for it.
C6_Witness ==
    /\ SUPPLIED_DEP \notin providers
    /\ \E k \in DOMAIN calls :
          /\ calls[k].phase = "Failed"
          /\ Descriptors(calls[k]) # << >>
          /\ calls[k].result = Rejected(ContainerResolutionFailure(SUPPLIED_DEP))

--------------------------------------------------------------------------
\* The registration orders of n descriptors.
RegistrationOrders(n) ==
    {p \in [1..n -> 1..n] : \A i, j \in 1..n : i # j => p[i] # p[j]}
Reorder(deps, p) == [i \in DOMAIN deps |-> deps[p[i]]]

\* C7 (Order independence): for descriptors with pairwise distinct indices,
\* every permutation of their registration order gives the same outcome and
\* the same final argument array for the same supplied map and the same
\* container-resolved arguments.
C7_OrderIndependence ==
    \A k \in DOMAIN calls :
        LET c == calls[k]
            deps == Descriptors(c)
        IN  ( /\ Terminal(c)
              /\ c.promise = "resolved"
              /\ c.boundDeps # None
              /\ DistinctIndices(deps) )
            => \A p \in RegistrationOrders(Len(deps)) :
                  LET r == GetInstanceArgs(Reorder(deps, p), c.resolvedArgs, c.supplied)
                  IN  /\ r.thrown = NoError <=> c.result.status = "resolved"
                      /\ c.result.status = "resolved" => r.args = c.result.args

\* A call completed on a class whose parameter 1 was registered before its
\* parameter 0, each value at its own index.
C7_Witness ==
    \E k \in DOMAIN calls :
        LET c == calls[k]
        IN  /\ c.phase = "Completed"
            /\ Descriptors(c) = << [token |-> "secret", index |-> 1],
                                   [token |-> "key", index |-> 0] >>
            /\ c.result.args = << c.supplied["key"], c.supplied["secret"] >>
            /\ c.supplied["key"] # c.supplied["secret"]

\* C8: the target class constructor is invoked only by the binder, at most
\* once per call, after every descriptor has been bound, and never with
\* undefined left at a position that has a descriptor.
C8_ConstructedOnceAfterBinding ==
    \A i \in DOMAIN ctorLog :
        LET e == ctorLog[i]
            c == calls[e.call]
            deps == Descriptors(c)
        IN  /\ e.by = "binder"
            /\ Invocations(e.call) = {i}
            /\ c.phase = "Completed"
            /\ c.boundDeps # None
            /\ c.cursor = Len(deps) + 1
            /\ \A p \in SuppliedPositions(deps) :
                  p \in DOMAIN e.args /\ e.args[p] # Undefined

\* Two calls have each constructed their target once, one of them with a
\* supplied value at a position beyond the container-resolved arguments.
C8_Witness ==
    /\ Len(ctorLog) = 2
    /\ ctorLog[1].call # ctorLog[2].call
    /\ \E i \in DOMAIN ctorLog :
          /\ Len(ctorLog[i].args) > Len(calls[ctorLog[i].call].resolvedArgs)
          /\ Descriptors(calls[ctorLog[i].call]) # << >>

\* The transitions of the state machine of one call.
Edges ==
    { <<"Requested", "ProxyResolving">>, <<"ProxyResolving", "Binding">>,
      <<"Binding", "Constructing">>, <<"Constructing", "Completed">>,
      <<"ProxyResolving", "Failed">>, <<"Binding", "Failed">> }

\* C9: a call starts in Requested and moves only along Requested ->
\* ProxyResolving -> Binding -> Constructing -> Completed; it fails only
\* from ProxyResolving, on a container resolution failure, and from Binding,
\* on a missing supplied dependency; Completed and Failed are never left.
C9_StateMachine ==
    [][ \A k \in DOMAIN calls' :
          IF k \notin DOMAIN calls
          THEN calls'[k].phase = "Requested"
          ELSE \/ calls'[k].phase = calls[k].phase
               \/ /\ <<calls[k].phase, calls'[k].phase>> \in Edges
                  /\ calls'[k].phase = "Failed" =>
                        \/ /\ calls[k].phase = "ProxyResolving"
                           /\ calls'[k].result.error.kind = "ContainerResolutionFailure"
                        \/ /\ calls[k].phase = "Binding"
                           /\ calls'[k].result.error.kind = "MissingSuppliedDependency"
      ]_vars

\* The transitions alone are those of C9: what breaks C9 is only the cause
\* of a failure that leaves Binding (the TypeError of C3).
C9_Transitions ==
    [][ \A k \in DOMAIN calls' :
          IF k \notin DOMAIN calls
          THEN calls'[k].phase = "Requested"
          ELSE \/ calls'[k].phase = calls[k].phase
               \/ <<calls[k].phase, calls'[k].phase>> \in Edges
      ]_vars

\* C10: with a container that settles every proxy construction request and
\* fair scheduling, every call that has begun eventually reaches Completed
\* or Failed.
C10_EveryCallTerminates ==
    \A k \in 1..MaxCalls :
        (k \in DOMAIN calls) ~> (k \in DOMAIN calls /\ Terminal(calls[k]))

\* Both calls have ended, one Completed and one Failed on a rejected proxy.
C10_Witness ==
    /\ Len(calls) = MaxCalls
    /\ \A k \in DOMAIN calls : Terminal(calls[k])
    /\ \E k \in DOMAIN calls : calls[k].phase = "Completed"
    /\ \E k \in DOMAIN calls : calls[k].phase = "Failed" /\ calls[k].promise = "rejected"

--------------------------------------------------------------------------
\* The descriptor list createWithSupplied reads for a class, in a given
\* store: none when neither the class nor its prototype chain has one.
DescriptorList(md, arr, c) ==
    LET found == GetMetadata(md, SUPPLIED_DEPS, c)
    IN  IF found = None THEN None ELSE Some(arr[found[1]])
ListOf(found) == IF found = None THEN << >> ELSE found[1]

\* c is a subclass, direct or not, of ancestor.
RECURSIVE Extends(_, _)
Extends(c, ancestor) ==
    /\ Parent(c) # NoClass
    /\ (Parent(c) = ancestor \/ Extends(Parent(c), ancestor))

\* C11: annotate(C, index, token) appends exactly one descriptor {token,
\* index} to the descriptor list of class C and leaves the descriptor list of
\* every other class unchanged, also when C extends a class that already has
\* descriptors; createWithSupplied on any other class then sees the same
\* descriptors as before.  (A subclass of C reads C's list by inheritance:
\* what it sees is C's list, and is not counted as another class's.)
C11_AnnotateChangesOneClass ==
    [][ \A d \in Decorations :
          Supplied(d[1], d[2], d[3]) =>
             /\ DescriptorList(metadata', arrays', d[2]) =
                   Some(Append(ListOf(DescriptorList(metadata, arrays, d[2])),
                               [token |-> d[1], index |-> d[3]]))
             /\ \A other \in Classes \ {d[2]} :
                   ~ Extends(other, d[2])
                   => DescriptorList(metadata', arrays', other) =
                      DescriptorList(metadata, arrays, other)
      ]_vars

\* C11 holds between classes that are not related by inheritance: what
\* breaks it is only the array a subclass shares with its superclass.
C11_AnnotateChangesNoUnrelatedClass ==
    [][ \A d \in Decorations :
          Supplied(d[1], d[2], d[3]) =>
             /\ DescriptorList(metadata', arrays', d[2]) =
                   Some(Append(ListOf(DescriptorList(metadata, arrays, d[2])),
                               [token |-> d[1], index |-> d[3]]))
             /\ \A other \in Classes \ {d[2]} :
                   (~ Extends(d[2], other) /\ ~ Extends(other, d[2]))
                   => DescriptorList(metadata', arrays', other) =
                      DescriptorList(metadata, arrays, other)
      ]_vars

--------------------------------------------------------------------------
\* C12: within one call the only suspension point is the wait for the
\* container to construct the proxy; once the argument array is available,
\* the binding of all descriptors and the construction of the target are one
\* uninterrupted step: between the first slot overwrite and the construction
\* no step of another call and no annotate takes place.
C12_BindingIsUninterrupted ==
    [][ \A k \in DOMAIN calls :
          /\ calls[k].phase \in {"Binding", "Constructing"} =>
                /\ running = k
                /\ metadata' = metadata
                /\ arrays' = arrays
                /\ annotations' = annotations
                /\ Len(calls') = Len(calls)
                /\ \A j \in DOMAIN calls \ {k} : calls'[j] = calls[j]
                /\ calls'[k] # calls[k]
          /\ (running = k /\ running' # k) =>
                calls'[k].phase \in {"ProxyResolving", "Completed", "Failed"}
      ]_vars

\* A call has overwritten its first slot and not yet constructed its target,
\* while another call's proxy is ready and a decorator could still be
\* applied: both have to wait.
C12_Witness ==
    \E k, j \in DOMAIN calls :
        /\ k # j
        /\ calls[k].phase = "Binding"
        /\ calls[k].cursor = 2
        /\ calls[k].constructorArgs # calls[k].resolvedArgs
        /\ calls[j].phase = "ProxyResolving"
        /\ calls[j].promise = "resolved"
        /\ annotations < MaxAnnotations

--------------------------------------------------------------------------
\* The registry entries of the classes of the program (the calls' proxies
\* left aside), with the content of the descriptor arrays.
Registry(md, arr) ==
    [key \in MetaKeys |-> [c \in Classes |->
        IF key = SUPPLIED_DEPS /\ md[key][c] # None
        THEN Some(arr[md[key][c][1]])
        ELSE md[key][c]]]

\* C13: createWithSupplied never modifies the annotation registry or the
\* caller's supplied map: over every step of a creation call, successful or
\* failed, each class's descriptor list, parameter type list and declared
\* dependency list and each supplied map stay as they were; only annotate
\* writes the registry.
C13_CreationLeavesRegistryAndMaps ==
    [][ /\ (\A d \in Decorations : ~ Supplied(d[1], d[2], d[3])) =>
              /\ Registry(metadata', arrays') = Registry(metadata, arrays)
              /\ arrays' = arrays
        /\ \A k \in DOMAIN calls :
              /\ k \in DOMAIN calls'
              /\ calls'[k].supplied = calls[k].supplied
              /\ calls'[k].targetClass = calls[k].targetClass
      ]_vars

\* Two calls on annotated classes have ended, one completed and one failed,
\* both after the metadata was mirrored and slots were bound, and the
\* registry still holds exactly what the decorators wrote.
C13_Witness ==
    /\ Len(calls) = 2
    /\ \E k, j \in DOMAIN calls :
          /\ calls[k].phase = "Completed"
          /\ calls[j].phase = "Failed"
          /\ calls[j].promise = "resolved"
          /\ Descriptors(calls[k]) # << >>
          /\ calls[k].constructorArgs # calls[k].resolvedArgs
          /\ metadata[PARAMTYPES][SuppliedFactory(k)] # None
          /\ metadata[PARAMTYPES][SuppliedFactory(j)] # None
    /\ annotations = MaxAnnotations
    /\ \A c \in Classes : metadata[PARAMTYPES][c] = EmittedParamTypes(c)

--------------------------------------------------------------------------
\* C14: the metadata mirror writes onto the proxy class a parameter type
\* list and a declared dependency list identical to the target class's; when
\* either list is absent on the target the proxy receives an empty list for
\* it; the mirror writes nothing onto the target class.
C14_MirrorCopiesOrDefaultsToEmpty ==
    [][ \A k \in DOMAIN calls :
          Begin(k) =>
             LET target == calls[k].targetClass
                 proxy == SuppliedFactory(k)
             IN  /\ metadata'[PARAMTYPES][proxy] =
                       Some(ListOf(GetMetadata(metadata, PARAMTYPES, target)))
                 /\ metadata'[SELF_DECLARED_DEPS_METADATA][proxy] =
                       Some(ListOf(GetMetadata(metadata,
                                               SELF_DECLARED_DEPS_METADATA, target)))
                 /\ Registry(metadata', arrays') = Registry(metadata, arrays)
      ]_vars

\* All of C14 but the default of the declared dependency list holds: the
\* proxy receives the target's parameter type list (empty when absent) and
\* exactly what the target has as declared dependency list, undefined when
\* it has none, and nothing is written onto the target.
C14_MirrorCopies ==
    [][ \A k \in DOMAIN calls :
          Begin(k) =>
             LET target == calls[k].targetClass
                 proxy == SuppliedFactory(k)
             IN  /\ metadata'[PARAMTYPES][proxy] =
                       Some(ListOf(GetMetadata(metadata, PARAMTYPES, target)))
                 /\ metadata'[SELF_DECLARED_DEPS_METADATA][proxy] =
                       GetMetadata(metadata, SELF_DECLARED_DEPS_METADATA, target)
                 /\ metadata'[SUPPLIED_DEPS][proxy] = None
                 /\ Registry(metadata', arrays') = Registry(metadata, arrays)
      ]_vars

--------------------------------------------------------------------------
\* The number of descriptors held by the descriptor arrays.
RECURSIVE DescriptorCount(_)
DescriptorCount(ids) ==
    IF ids = {} THEN 0
    ELSE LET id == CHOOSE x \in ids : TRUE
         IN  Len(arrays[id]) + DescriptorCount(ids \ {id})

\* Two descriptors of the list name the same index with different tokens,
\* and the supplied map holds a defined value for both.
SameIndexPair(deps, supplied, i, j) ==
    /\ i < j
    /\ deps[i].index = deps[j].index
    /\ deps[i].token # deps[j].token
    /\ HoldsDefined(supplied, deps[i].token)
    /\ HoldsDefined(supplied, deps[j].token)

\* C15 as stated: annotate never rejects or merges a second descriptor for
\* an index that already has one; when a class has two descriptors with the
\* same index and different tokens and the supplied map defines both tokens,
\* the call succeeds and the argument at that index is the value of the
\* token of the descriptor appended last.
C15_LastWriteWinsWhenBothDefined ==
    /\ DescriptorCount(DOMAIN arrays) = annotations
    /\ \A k \in DOMAIN calls :
          LET c == calls[k]
              deps == Descriptors(c)
          IN  Terminal(c) =>
                \A i, j \in DOMAIN deps :
                   SameIndexPair(deps, c.supplied, i, j)
                   => /\ c.phase = "Completed"
                      /\ c.result.args[deps[j].index + 1] =
                            c.supplied[deps[LastAt(deps, deps[j].index + 1)].token]

\* C15 (amended): annotate never rejects or merges a second descriptor for
\* an index that already has one; when a class has two descriptors with the
\* same index and different tokens, the supplied map defines the token of
\* every descriptor of the class and the container resolves the proxy, the
\* call succeeds and the argument at that index is the value of the token of
\* the descriptor appended last for that index.
C15_LastWriteWins ==
    /\ DescriptorCount(DOMAIN arrays) = annotations
    /\ \A k \in DOMAIN calls :
          LET c == calls[k]
              deps == Descriptors(c)
          IN  ( /\ Terminal(c)
                /\ c.promise = "resolved"
                /\ \A i \in DOMAIN deps : HoldsDefined(c.supplied, deps[i].token) )
              => \A i, j \in DOMAIN deps :
                    SameIndexPair(deps, c.supplied, i, j)
                    => /\ c.phase = "Completed"
                       /\ c.result.args[deps[j].index + 1] =
                             c.supplied[deps[LastAt(deps, deps[j].index + 1)].token]
                       /\ \E n \in Invocations(k) : ctorLog[n].args = c.result.args

\* A call completed on a class whose two descriptors name the same index:
\* the constructor got the value of the second token, which is not the value
\* of the first.
C15_Witness ==
    \E k \in DOMAIN calls :
        LET c == calls[k]
            deps == Descriptors(c)
        IN  /\ c.phase = "Completed"
            /\ Len(deps) = 2
            /\ SameIndexPair(deps, c.supplied, 1, 2)
            /\ c.supplied[deps[1].token] # c.supplied[deps[2].token]
            /\ c.result.args[deps[2].index + 1] = c.supplied[deps[2].token]

====
